---------------------------- MODULE Spec2Model ----------------------------
(***************************************************************************)
(* Model of the loan interest-accrual engine of loanLedger:                *)
(* generateLedger of src/LoanLedger.jsx, stepped one loop iteration at a   *)
(* time, with the helpers it calls.                                        *)
(*                                                                         *)
(* Conventions of the model.                                               *)
(*  - A date string 'yyyy-MM-dd' is a record [y, m, d]; the empty string   *)
(*    of an unset date input is NoDate.                                    *)
(*  - A JavaScript Date is a number of half-days since 1970-01-01 local    *)
(*    time: 2*day for local midnight (startOfDay), 2*day+1 for the         *)
(*    23:59:59.999 that endOfQuarter returns.  The host time zone is at or *)
(*    east of UTC (the application's locale is India), so that parsing a   *)
(*    date string gives local midnight of that calendar day and            *)
(*    toISOString of an end-of-day instant names the same calendar day.    *)
(*  - A JavaScript Number is an exact rational [n, d] in lowest terms with *)
(*    d > 0: the model idealises IEEE-754 rounding away.                   *)
(***************************************************************************)
EXTENDS Integers, Sequences, FiniteSets, TLC

VARIABLES customer, transactions, clock, pc, sortedTransactions,
          uniqueSortedDates, i, runningPrincipal, cumulativeInterest,
          newLedgerRows, result, run, firstResult,
          sampleYear, sampleDaysInYear, sampleInterest, sampleAmount, sampleDays,
          timezoneOffset, events, ledger, outstandingBalance,
          cumulativeNetInterest, lastEventDate,
          ledgers, activeLedgerId, showCustomerForm, showTransactionForm

vars == <<customer, transactions, clock, pc, sortedTransactions,
          uniqueSortedDates, i, runningPrincipal, cumulativeInterest,
          newLedgerRows, result, run, firstResult,
          sampleYear, sampleDaysInYear, sampleInterest, sampleAmount, sampleDays,
          timezoneOffset, events, ledger, outstandingBalance,
          cumulativeNetInterest, lastEventDate,
          ledgers, activeLedgerId, showCustomerForm, showTransactionForm>>

\* The state of calculateLedger of src/run.ts.
runVars == <<timezoneOffset, events, ledger, outstandingBalance,
             cumulativeNetInterest, lastEventDate>>

\* The state of the App component of src/LoanLedger.jsx.
appVars == <<ledgers, activeLedgerId, showCustomerForm, showTransactionForm>>

---------------------------------------------------------------------------
(* Bounds of the model. *)

\* Largest number of transactions handed to generateLedger.
MaxTx == 2

\* Largest number of days the wall clock advances between two invocations.
MaxClockAdvance == 1

\* The calendar years the day-count helpers are applied to.
MinYear == 1896

MaxYear == 2104

\* The App component holds at most MaxLedgers ledgers.
MaxLedgers == 2

\* A ledger of the App component holds at most MaxAppTx transactions.
MaxAppTx == 2

---------------------------------------------------------------------------
(* JavaScript Number arithmetic, as exact rationals. *)

Abs(x) == IF x < 0 THEN -x ELSE x

RECURSIVE GCD(_, _)
GCD(a, b) == IF b = 0 THEN a ELSE GCD(b, a % b)

\* The rational n/d (d # 0) in lowest terms with a positive denominator.
Rat(n, d) ==
    LET g == GCD(Abs(n), Abs(d))
        s == IF d < 0 THEN -1 ELSE 1
    IN  [n |-> s * (n \div g), d |-> s * (d \div g)]

RInt(k) == [n |-> k, d |-> 1]

RZero == RInt(0)

RAdd(a, b) ==
    LET g == GCD(a.d, b.d)
        l == (a.d \div g) * b.d
    IN  Rat(a.n * (l \div a.d) + b.n * (l \div b.d), l)

RNeg(a) == [n |-> -a.n, d |-> a.d]

RSub(a, b) == RAdd(a, RNeg(b))

\* Product, cancelling across the factors first.
RMul(a, b) ==
    LET g1 == GCD(Abs(a.n), b.d)
        g2 == GCD(Abs(b.n), a.d)
        h1 == IF g1 = 0 THEN 1 ELSE g1
        h2 == IF g2 = 0 THEN 1 ELSE g2
    IN  Rat((a.n \div h1) * (b.n \div h2), (a.d \div h2) * (b.d \div h1))

RPos(a) == a.n > 0

RNonPos(a) == a.n <= 0

---------------------------------------------------------------------------
(* Calendar: JavaScript Date and the date-fns functions the engine uses. *)

NoDate == [y |-> 0, m |-> 0, d |-> 0]

Null == -1

\* Days from 1970-01-01 to the civil date y-m-d (proleptic Gregorian).
DaysFromCivil(y, m, d) ==
    LET yy  == IF m <= 2 THEN y - 1 ELSE y
        era == yy \div 400
        yoe == yy - era * 400
        mp  == IF m > 2 THEN m - 3 ELSE m + 9
        doy == (153 * mp + 2) \div 5 + d - 1
        doe == yoe * 365 + yoe \div 4 - yoe \div 100 + doy
    IN  era * 146097 + doe - 719468

\* The civil date of a day number.
CivilFromDays(z0) ==
    LET z   == z0 + 719468
        era == z \div 146097
        doe == z - era * 146097
        yoe == (doe - doe \div 1460 + doe \div 36524 - doe \div 146096) \div 365
        doy == doe - (365 * yoe + yoe \div 4 - yoe \div 100)
        mp  == (5 * doy + 2) \div 153
        dd  == doy - (153 * mp + 2) \div 5 + 1
        mm  == IF mp < 10 THEN mp + 3 ELSE mp - 9
        yy  == yoe + era * 400 + (IF mm <= 2 THEN 1 ELSE 0)
    IN  [y |-> yy, m |-> mm, d |-> dd]

DayOf(t) == t \div 2

startOfDay(t) == 2 * DayOf(t)

\* new Date('yyyy-MM-dd') followed by startOfDay; null for the empty string.
parseDate(s) ==
    IF s = NoDate THEN Null ELSE 2 * DaysFromCivil(s.y, s.m, s.d)

\* format(date, 'yyyy-MM-dd').
format(t) == CivilFromDays(DayOf(t))

\* date.toISOString().split('T')[0].
toISODate(t) == CivilFromDays(DayOf(t))

getYear(t) == CivilFromDays(DayOf(t)).y

isAfter(a, b) == a > b

isBefore(a, b) == a < b

isSameDay(a, b) == DayOf(a) = DayOf(b)

addDays(t, k) == t + 2 * k

\* Full days from b to a.
differenceInDays(a, b) ==
    IF a >= b THEN (a - b) \div 2 ELSE -((b - a) \div 2)

\* 23:59:59.999 of the last day of the calendar quarter of t.
endOfQuarter(t) ==
    LET c  == CivilFromDays(DayOf(t))
        qm == c.m - ((c.m - 1) % 3) + 2
        ny == IF qm = 12 THEN c.y + 1 ELSE c.y
        nm == IF qm = 12 THEN 1 ELSE qm + 1
    IN  2 * (DaysFromCivil(ny, nm, 1) - 1) + 1

---------------------------------------------------------------------------
(* Helper functions of the source. *)

\* Mutant: the Julian rule, every fourth year a leap year.
getDaysInYear_Julian(year) == IF year % 4 = 0 THEN 366 ELSE 365

getDaysInYear(year) ==
    IF (year % 4 = 0 /\ year % 100 # 0) \/ year % 400 = 0 THEN 366 ELSE 365

\* Mutant: a fixed 365-day year.
calculateSimpleInterest_Fixed365(principal, rate, days, year) ==
    IF RNonPos(principal) \/ days <= 0
    THEN RZero
    ELSE RMul(principal, Rat(rate * days, 100 * 365))

\* Mutant: the guard on the principal and the days left out.
calculateSimpleInterest_NoGuard(principal, rate, days, year) ==
    RMul(principal, Rat(rate * days, 100 * getDaysInYear(year)))

calculateSimpleInterest(principal, rate, days, year) ==
    IF RNonPos(principal) \/ days <= 0
    THEN RZero
    ELSE RMul(principal, Rat(rate * days, 100 * getDaysInYear(year)))


---------------------------------------------------------------------------
(* generateLedger: the pieces of its body. *)

\* Mutant: the end date filters nothing.
FilterByEndDate_KeepAll(txs, iclEndDate) == txs

\* The transactions not dated after the end date, in their given order.
FilterByEndDate(txs, iclEndDate) ==
    SelectSeq(txs, LAMBDA t :
        IF iclEndDate # Null THEN ~isAfter(parseDate(t.date), iclEndDate) ELSE TRUE)

\* Array.prototype.sort by parsed date: stable, ascending.
RECURSIVE SortByDate(_)
SortByDate(txs) ==
    IF txs = <<>> THEN <<>>
    ELSE LET rest == SortByDate(Tail(txs))
             t    == Head(txs)
             le   == SelectSeq(rest, LAMBDA u : parseDate(u.date) < parseDate(t.date))
             gt   == SelectSeq(rest, LAMBDA u : parseDate(u.date) >= parseDate(t.date))
         IN  le \o <<t>> \o gt

\* The while loop over the quarters from currentDate: the date strings it adds.
RECURSIVE QuarterEndDates(_, _, _)
QuarterEndDates(currentDate, lastPossibleDate, firstTransactionDate) ==
    IF isAfter(currentDate, lastPossibleDate) THEN {}
    ELSE LET quarterEnd == endOfQuarter(currentDate)
             added == IF ~isAfter(quarterEnd, lastPossibleDate)
                         /\ ~isBefore(quarterEnd, firstTransactionDate)
                      THEN {toISODate(quarterEnd)} ELSE {}
         IN  added \cup QuarterEndDates(addDays(endOfQuarter(currentDate), 1),
                                        lastPossibleDate, firstTransactionDate)

\* The horizon of the timeline: the end date, or else the wall clock's today.
LastPossibleDate(iclEndDate, now) ==
    IF iclEndDate # Null THEN iclEndDate ELSE startOfDay(now)

\* Mutant: the end date is not added as an event of its own.
EventDates_NoClosing(sorted, cust, now) ==
    LET iclEndDate == parseDate(cust.iclEndDate)
        firstTransactionDate == parseDate(sorted[1].date)
        lastPossibleDate == LastPossibleDate(iclEndDate, now)
    IN  {sorted[k].date : k \in 1..Len(sorted)}
            \cup QuarterEndDates(firstTransactionDate, lastPossibleDate,
                                 firstTransactionDate)

\* The Set of event date strings.
EventDates(sorted, cust, now) ==
    LET iclEndDate == parseDate(cust.iclEndDate)
        firstTransactionDate == parseDate(sorted[1].date)
        txDates == {sorted[k].date : k \in 1..Len(sorted)}
        lastPossibleDate == LastPossibleDate(iclEndDate, now)
        quarters == QuarterEndDates(firstTransactionDate, lastPossibleDate,
                                    firstTransactionDate)
        closing == IF iclEndDate # Null THEN {cust.iclEndDate} ELSE {}
    IN  txDates \cup quarters \cup closing

\* A finite set of numbers as an ascending sequence.
RECURSIVE SortAscending(_)
SortAscending(S) ==
    IF S = {} THEN <<>>
    ELSE LET lo == CHOOSE x \in S : \A y \in S : x <= y
         IN  <<lo>> \o SortAscending(S \ {lo})

\* Mutant: the comparator reversed, (a, b) => b - a.
RECURSIVE SortDescending(_)
SortDescending(S) ==
    IF S = {} THEN <<>>
    ELSE LET hi == CHOOSE x \in S : \A y \in S : x >= y
         IN  <<hi>> \o SortDescending(S \ {hi})

UniqueSortedDates_Reversed(eventDates) ==
    SortDescending({parseDate(s) : s \in eventDates})

\* Array.from(eventDates).map(parseDate).sort((a, b) => a - b).
UniqueSortedDates(eventDates) ==
    SortAscending({parseDate(s) : s \in eventDates})

\* Mutant: find in place of filter, the first transaction of the date only.
TransactionsOnDate_FindFirst(sorted, eventDate) ==
    LET onDate == SelectSeq(sorted, LAMBDA t : isSameDay(parseDate(t.date), eventDate))
    IN  IF onDate = <<>> THEN <<>> ELSE <<Head(onDate)>>

TransactionsOnDate(sorted, eventDate) ==
    SelectSeq(sorted, LAMBDA t : isSameDay(parseDate(t.date), eventDate))

RECURSIVE SumPaid(_)
SumPaid(txs) == IF txs = <<>> THEN 0 ELSE Head(txs).paid + SumPaid(Tail(txs))

RECURSIVE SumRepaid(_)
SumRepaid(txs) == IF txs = <<>> THEN 0 ELSE Head(txs).repaid + SumRepaid(Tail(txs))

Description(paidToday, repaidToday) ==
    IF paidToday > 0 THEN "Deposit"
    ELSE IF repaidToday > 0 THEN "Repayment" ELSE "Interest Period"

\* Mutant: both end days of the period counted.
DaysInPeriod_Inclusive(eventDate, nextEventDate) ==
    IF nextEventDate # Null THEN differenceInDays(nextEventDate, eventDate) + 1 ELSE 1

DaysInPeriod(eventDate, nextEventDate) ==
    IF nextEventDate # Null THEN differenceInDays(nextEventDate, eventDate) ELSE 1

Tds(interest, tdsRate) == RMul(interest, Rat(tdsRate, 100))

\* Mutant: the TDS is not deducted.
NetInterest_NoTds(interest, tds) == interest

\* Mutant: the operands of the subtraction swapped.
NetInterest_Swapped(interest, tds) == RSub(tds, interest)

NetInterest(interest, tds) == RSub(interest, tds)

\* Mutant: the start date is not consulted.
ShouldCapitalize_IgnoresStart(eventDate, iclStartDate, interestMethod, cumInterest) ==
    /\ isSameDay(eventDate, endOfQuarter(eventDate))
    /\ interestMethod = "Compound"
    /\ RPos(cumInterest)

\* The guard of the capitalization step.
ShouldCapitalize(eventDate, iclStartDate, interestMethod, cumInterest) ==
    LET isCurrentEventQuarterEnd == isSameDay(eventDate, endOfQuarter(eventDate))
        useCompound == isAfter(eventDate, iclStartDate) \/ isSameDay(eventDate, iclStartDate)
    IN  isCurrentEventQuarterEnd /\ useCompound /\ interestMethod = "Compound"
        /\ RPos(cumInterest)

\* Mutant: the accumulated net interest is not folded in.
CapitalizedPrincipal_NoFold(principal, cumInterest) == principal

\* The running principal once the accumulated net interest is folded in.
CapitalizedPrincipal(principal, cumInterest) == RAdd(principal, cumInterest)

\* The accumulated net interest carried on after a capitalization.
CumulativeAfterCapitalization == RZero

\* Mutant: the capitalized amount also reported as the row's net interest.
CapitalizationRow_WithNet(eventDate, principal, cumInterest) ==
    [date |-> format(eventDate), description |-> "Quarterly Interest Capitalized",
     paid |-> 0, repaid |-> 0, principal |-> principal,
     interest |-> RZero, tds |-> RZero, netInterest |-> cumInterest,
     cumulativeInterest |-> cumInterest]

CapitalizationRow(eventDate, principal, cumInterest) ==
    [date |-> format(eventDate), description |-> "Quarterly Interest Capitalized",
     paid |-> 0, repaid |-> 0, principal |-> principal,
     interest |-> RZero, tds |-> RZero, netInterest |-> RZero,
     cumulativeInterest |-> cumInterest]

---------------------------------------------------------------------------
(* The inputs the model draws from. *)

Date(y, m, d) == [y |-> y, m |-> m, d |-> d]

\* The one calendar quarter-end inside the window is 2023-12-31; the window
\* spans the non-leap year 2023 and the leap year 2024.
StartDates == {NoDate, Date(2023, 12, 31), Date(2024, 1, 10)}

EndDates == {NoDate, Date(2023, 12, 31), Date(2024, 1, 20)}

TxDates == {Date(2023, 12, 20), Date(2023, 12, 31), Date(2024, 1, 25)}

\* <<paid, repaid>> of a deposit and of a repayment.
TxAmounts == {<<7300, 0>>, <<0, 3650>>}

\* <<interestRate, tdsRate>>.
Rates == {<<10, 50>>, <<0, 50>>, <<-10, 50>>}

Methods == {"Simple", "Compound"}

ClockDates == {Date(2023, 12, 31)}

Customers ==
    {[iclStartDate |-> s, iclEndDate |-> e, interestMethod |-> meth,
      interestRate |-> r[1], tdsRate |-> r[2]] :
        s \in StartDates, e \in EndDates, meth \in Methods, r \in Rates}

\* A deposit and a repayment on every date, a transaction with both amounts
\* positive and one with both amounts zero.
Transactions ==
    {[date |-> dt, paid |-> a[1], repaid |-> a[2]] : dt \in TxDates, a \in TxAmounts}
    \cup {[date |-> Date(2023, 12, 20), paid |-> 7300, repaid |-> 3650],
          [date |-> Date(2023, 12, 31), paid |-> 0, repaid |-> 0]}

TransactionLists == UNION {[1..n -> Transactions] : n \in 0..MaxTx}

\* The reference scenario of the specification.
ScenarioCustomer ==
    [iclStartDate |-> Date(2023, 4, 1), iclEndDate |-> NoDate,
     interestMethod |-> "Compound", interestRate |-> 12, tdsRate |-> 10]

ScenarioTransactions == <<[date |-> Date(2023, 4, 1), paid |-> 100000, repaid |-> 0]>>

ScenarioAsOf == Date(2023, 7, 1)

IsScenario ==
    /\ customer = ScenarioCustomer
    /\ transactions = ScenarioTransactions

---------------------------------------------------------------------------
(* The state machine: one invocation of generateLedger, then a second one *)
(* on the same arguments.                                                  *)

\* Line 40: what generateLedger returns when the start date, the rate or the
\* transactions are missing.
ReturnMissingTerms == <<>>

\* Line 51: what generateLedger returns when the end date excludes every
\* transaction.
ReturnNoTransactionLeft == <<>>

Idle ==
    /\ sortedTransactions = <<>>
    /\ uniqueSortedDates = <<>>
    /\ i = 0
    /\ runningPrincipal = RZero
    /\ cumulativeInterest = RZero
    /\ newLedgerRows = <<>>

\* calculateLedger of src/run.ts is not running.
NoRun ==
    /\ timezoneOffset = 0
    /\ events = <<>>
    /\ ledger = <<>>
    /\ outstandingBalance = RZero
    /\ cumulativeNetInterest = RZero
    /\ lastEventDate = 0

\* The App component is not mounted: the initial values of its useState
\* hooks (lines 25-29).
NoApp ==
    /\ ledgers = <<>>
    /\ activeLedgerId = Null
    /\ showCustomerForm = FALSE
    /\ showTransactionForm = FALSE

\* The day-count helpers have not been applied.
NoSample ==
    /\ sampleYear = 0
    /\ sampleDaysInYear = 0
    /\ sampleInterest = RZero
    /\ sampleAmount = RZero
    /\ sampleDays = 0

Init ==
    /\ \/ /\ customer \in Customers
          /\ transactions \in TransactionLists
          /\ clock \in {parseDate(s) : s \in ClockDates}
       \/ /\ customer = ScenarioCustomer
          /\ transactions = ScenarioTransactions
          /\ clock = parseDate(ScenarioAsOf)
    /\ pc = "start"
    /\ Idle
    /\ result = <<>>
    /\ run = 1
    /\ firstResult = <<>>
    /\ NoSample
    /\ NoRun
    /\ NoApp

\* Lines 36-41: parse the terms; no start date, a falsy rate or no
\* transaction returns the empty ledger.
Validate ==
    /\ pc = "start"
    /\ IF parseDate(customer.iclStartDate) = Null
          \/ customer.interestRate = 0
          \/ Len(transactions) = 0
       THEN /\ pc' = "done"
            /\ result' = ReturnMissingTerms
       ELSE /\ pc' = "filter"
            /\ UNCHANGED result
    /\ UNCHANGED <<customer, transactions, clock, sortedTransactions,
                   uniqueSortedDates, i, runningPrincipal, cumulativeInterest,
                   newLedgerRows, run, firstResult>>
    /\ UNCHANGED <<sampleYear, sampleDaysInYear, sampleInterest, sampleAmount,
                   sampleDays>>
    /\ UNCHANGED <<runVars, appVars>>

\* Lines 43-52: drop the transactions after the end date and sort the rest;
\* none left returns the empty ledger.
FilterSort ==
    /\ pc = "filter"
    /\ LET sorted == SortByDate(FilterByEndDate(transactions,
                                                parseDate(customer.iclEndDate)))
       IN  /\ sortedTransactions' = sorted
           /\ IF Len(sorted) = 0
              THEN /\ pc' = "done"
                   /\ result' = ReturnNoTransactionLeft
              ELSE /\ pc' = "timeline"
                   /\ UNCHANGED result
    /\ UNCHANGED <<customer, transactions, clock, uniqueSortedDates, i,
                   runningPrincipal, cumulativeInterest, newLedgerRows, run,
                   firstResult>>
    /\ UNCHANGED <<sampleYear, sampleDaysInYear, sampleInterest, sampleAmount,
                   sampleDays>>
    /\ UNCHANGED <<runVars, appVars>>

\* Lines 54-77: the event dates, and the loop's initial state.
BuildTimeline ==
    /\ pc = "timeline"
    /\ uniqueSortedDates' =
           UniqueSortedDates(EventDates(sortedTransactions, customer, clock))
    /\ runningPrincipal' = RZero
    /\ cumulativeInterest' = RZero
    /\ newLedgerRows' = <<>>
    /\ i' = 1
    /\ pc' = "loop"
    /\ UNCHANGED <<customer, transactions, clock, sortedTransactions, result,
                   run, firstResult>>
    /\ UNCHANGED <<sampleYear, sampleDaysInYear, sampleInterest, sampleAmount,
                   sampleDays>>
    /\ UNCHANGED <<runVars, appVars>>

\* Lines 79-123: one iteration of the loop over the event dates.
ProcessEvent ==
    /\ pc = "loop"
    /\ i <= Len(uniqueSortedDates)
    /\ LET eventDate == uniqueSortedDates[i]
           nextEventDate == IF i + 1 <= Len(uniqueSortedDates)
                            THEN uniqueSortedDates[i + 1] ELSE Null
           transactionsOnDate == TransactionsOnDate(sortedTransactions, eventDate)
           paidToday == SumPaid(transactionsOnDate)
           repaidToday == SumRepaid(transactionsOnDate)
           principal == RAdd(runningPrincipal, RInt(paidToday - repaidToday))
           daysInPeriod == DaysInPeriod(eventDate, nextEventDate)
           interest == calculateSimpleInterest(principal, customer.interestRate,
                                               daysInPeriod, getYear(eventDate))
           tds == Tds(interest, customer.tdsRate)
           netInterest == NetInterest(interest, tds)
           cum == RAdd(cumulativeInterest, netInterest)
           row == [date |-> format(eventDate),
                   description |-> Description(paidToday, repaidToday),
                   paid |-> paidToday, repaid |-> repaidToday,
                   principal |-> principal,
                   interest |-> interest, tds |-> tds,
                   netInterest |-> netInterest, cumulativeInterest |-> cum]
       IN  IF ShouldCapitalize(eventDate, parseDate(customer.iclStartDate),
                               customer.interestMethod, cum)
           THEN /\ runningPrincipal' = CapitalizedPrincipal(principal, cum)
                /\ newLedgerRows' = newLedgerRows \o
                       <<row, CapitalizationRow(eventDate,
                                 CapitalizedPrincipal(principal, cum), cum)>>
                /\ cumulativeInterest' = CumulativeAfterCapitalization
           ELSE /\ runningPrincipal' = principal
                /\ newLedgerRows' = Append(newLedgerRows, row)
                /\ cumulativeInterest' = cum
    /\ i' = i + 1
    /\ UNCHANGED <<customer, transactions, clock, pc, sortedTransactions,
                   uniqueSortedDates, result, run, firstResult>>
    /\ UNCHANGED <<sampleYear, sampleDaysInYear, sampleInterest, sampleAmount,
                   sampleDays>>
    /\ UNCHANGED <<runVars, appVars>>

\* Line 125: the loop is over; the rows are returned.
Return ==
    /\ pc = "loop"
    /\ i > Len(uniqueSortedDates)
    /\ result' = newLedgerRows
    /\ pc' = "done"
    /\ UNCHANGED <<customer, transactions, clock, sortedTransactions,
                   uniqueSortedDates, i, runningPrincipal, cumulativeInterest,
                   newLedgerRows, run, firstResult>>
    /\ UNCHANGED <<sampleYear, sampleDaysInYear, sampleInterest, sampleAmount,
                   sampleDays>>
    /\ UNCHANGED <<runVars, appVars>>

\* The caller invokes generateLedger a second time on the same customer and
\* transactions; the wall clock has moved on by at most MaxClockAdvance days.
Reinvoke ==
    /\ pc = "done"
    /\ run = 1
    /\ \E k \in 0..MaxClockAdvance : clock' = addDays(clock, k)
    /\ firstResult' = result
    /\ run' = 2
    /\ pc' = "start"
    /\ sortedTransactions' = <<>>
    /\ uniqueSortedDates' = <<>>
    /\ i' = 0
    /\ runningPrincipal' = RZero
    /\ cumulativeInterest' = RZero
    /\ newLedgerRows' = <<>>
    /\ result' = <<>>
    /\ UNCHANGED <<customer, transactions>>
    /\ UNCHANGED <<sampleYear, sampleDaysInYear, sampleInterest, sampleAmount,
                   sampleDays>>
    /\ UNCHANGED <<runVars, appVars>>

Next ==
    \/ Validate
    \/ FilterSort
    \/ BuildTimeline
    \/ ProcessEvent
    \/ Return
    \/ Reinvoke

Spec == Init /\ [][Next]_vars

---------------------------------------------------------------------------
(* The day-count helpers on their own: getDaysInYear and                   *)
(* calculateSimpleInterest applied to a year drawn from MinYear..MaxYear.  *)

SamplePrincipal == RInt(100000)

InitDayCount ==
    /\ customer = ScenarioCustomer
    /\ transactions = <<>>
    /\ clock = parseDate(ScenarioAsOf)
    /\ pc = "daycount"
    /\ Idle
    /\ result = <<>>
    /\ run = 1
    /\ firstResult = <<>>
    /\ sampleYear \in MinYear..MaxYear
    /\ sampleDaysInYear = 0
    /\ sampleInterest = RZero
    /\ sampleAmount = RZero
    /\ sampleDays = 0
    /\ NoRun
    /\ NoApp

\* getDaysInYear and calculateSimpleInterest(100000, 12, 30, .) of the sampled year.
ComputeDayCount ==
    /\ pc = "daycount"
    /\ sampleDaysInYear' = getDaysInYear(sampleYear)
    /\ sampleInterest' = calculateSimpleInterest(SamplePrincipal,
                              customer.interestRate, 30, sampleYear)
    /\ pc' = "counted"
    /\ UNCHANGED <<customer, transactions, clock, sortedTransactions,
                   uniqueSortedDates, i, runningPrincipal, cumulativeInterest,
                   newLedgerRows, result, run, firstResult, sampleYear,
                   sampleAmount, sampleDays>>
    /\ UNCHANGED <<runVars, appVars>>

NextDayCount == ComputeDayCount

SpecDayCount == InitDayCount /\ [][NextDayCount]_vars

---------------------------------------------------------------------------
(* generateLedger together with calculateSimpleInterest on its own: the    *)
(* helper applied to a principal, a number of days and a year that the     *)
(* loop of generateLedger does not produce (a period of no day or less).   *)

SampleAmounts == {RInt(-3650), RZero, RInt(7300)}

SampleDays == {-1, 0, 1, 30}

SampleYears == {2023, 2024}

InitInterest ==
    \/ Init
    \/ /\ customer \in {c \in Customers : /\ c.iclStartDate = NoDate
                                          /\ c.iclEndDate = NoDate
                                          /\ c.interestMethod = "Simple"}
       /\ transactions = <<>>
       /\ clock \in {parseDate(s) : s \in ClockDates}
       /\ pc = "interest"
       /\ Idle
       /\ result = <<>>
       /\ run = 1
       /\ firstResult = <<>>
       /\ sampleYear \in SampleYears
       /\ sampleDaysInYear = 0
       /\ sampleInterest = RZero
       /\ sampleAmount \in SampleAmounts
       /\ sampleDays \in SampleDays
       /\ NoRun
       /\ NoApp

\* calculateSimpleInterest(principal, rate, days, year) of the sampled
\* arguments.
ComputeInterest ==
    /\ pc = "interest"
    /\ sampleInterest' = calculateSimpleInterest(sampleAmount, customer.interestRate,
                                                 sampleDays, sampleYear)
    /\ pc' = "computed"
    /\ UNCHANGED <<customer, transactions, clock, sortedTransactions,
                   uniqueSortedDates, i, runningPrincipal, cumulativeInterest,
                   newLedgerRows, result, run, firstResult, sampleYear,
                   sampleDaysInYear, sampleAmount, sampleDays>>
    /\ UNCHANGED <<runVars, appVars>>

NextInterest ==
    \/ Next
    \/ ComputeInterest

SpecInterest == InitInterest /\ [][NextInterest]_vars

---------------------------------------------------------------------------
(* The App component: its ledgers, the active one and the two forms.  A    *)
(* handler's call of generateLedger is the function of its arguments and   *)
(* of the wall clock that the loop above computes step by step.            *)

\* Lines 79-123: the rows of the event dates k, k + 1, ... of the loop,
\* from the running principal and the cumulative interest before date k.
RECURSIVE LoopRows(_, _, _, _, _, _)

\* Lines 101-102: the row of an event date.
EventRow(eventDate, paidToday, repaidToday, principal, interest, tds, netInterest, cum) ==
    [date |-> format(eventDate),
     description |-> Description(paidToday, repaidToday),
     paid |-> paidToday, repaid |-> repaidToday,
     principal |-> principal,
     interest |-> interest, tds |-> tds,
     netInterest |-> netInterest, cumulativeInterest |-> cum]

\* Lines 104-123: the capitalization on a quarter end, and the later dates.
RowsAfterAccrual(dates, k, sorted, cust, row, principal, cum) ==
    IF ShouldCapitalize(dates[k], parseDate(cust.iclStartDate),
                        cust.interestMethod, cum)
    THEN <<row, CapitalizationRow(dates[k],
                    CapitalizedPrincipal(principal, cum), cum)>>
             \o LoopRows(dates, k + 1, sorted, cust,
                         CapitalizedPrincipal(principal, cum),
                         CumulativeAfterCapitalization)
    ELSE <<row>> \o LoopRows(dates, k + 1, sorted, cust, principal, cum)

\* Lines 99-102: netInterest and cumulativeInterest of the period.
RowsOfTds(dates, k, sorted, cust, paidToday, repaidToday, principal, interest, tds, cumBefore) ==
    RowsAfterAccrual(dates, k, sorted, cust,
        EventRow(dates[k], paidToday, repaidToday, principal, interest, tds,
                 NetInterest(interest, tds),
                 RAdd(cumBefore, NetInterest(interest, tds))),
        principal, RAdd(cumBefore, NetInterest(interest, tds)))

\* Lines 92-98: daysInPeriod, interest and tds of the period.
RowsOfInterest(dates, k, sorted, cust, paidToday, repaidToday, principal, interest, cumBefore) ==
    RowsOfTds(dates, k, sorted, cust, paidToday, repaidToday, principal,
              interest, Tds(interest, cust.tdsRate), cumBefore)

RowsOfPrincipal(dates, k, sorted, cust, paidToday, repaidToday, principal, cumBefore) ==
    RowsOfInterest(dates, k, sorted, cust, paidToday, repaidToday, principal,
        calculateSimpleInterest(principal, cust.interestRate,
            DaysInPeriod(dates[k],
                         IF k + 1 <= Len(dates) THEN dates[k + 1] ELSE Null),
            getYear(dates[k])),
        cumBefore)

\* Lines 83-90: the amounts of the date's transactions join the principal.
LoopRows(dates, k, sorted, cust, principalBefore, cumBefore) ==
    IF k > Len(dates) THEN <<>>
    ELSE RowsOfPrincipal(dates, k, sorted, cust,
             SumPaid(TransactionsOnDate(sorted, dates[k])),
             SumRepaid(TransactionsOnDate(sorted, dates[k])),
             RAdd(principalBefore,
                  RInt(SumPaid(TransactionsOnDate(sorted, dates[k]))
                       - SumRepaid(TransactionsOnDate(sorted, dates[k])))),
             cumBefore)

\* Lines 50-125: the ledger of the sorted transactions the end date keeps.
LedgerOfSorted(sorted, cust, now) ==
    IF Len(sorted) = 0 THEN ReturnNoTransactionLeft
    ELSE LoopRows(UniqueSortedDates(EventDates(sorted, cust, now)), 1,
                  sorted, cust, RZero, RZero)

\* Lines 35-126: generateLedger(customer, transactions), called at the
\* instant now.
GenerateLedger(cust, txs, now) ==
    IF parseDate(cust.iclStartDate) = Null \/ cust.interestRate = 0 \/ Len(txs) = 0
    THEN ReturnMissingTerms
    ELSE LedgerOfSorted(SortByDate(FilterByEndDate(txs, parseDate(cust.iclEndDate))),
                        cust, now)

\* Lines 133-136: the customer of a new ledger.
NewCustomer ==
    [name |-> "", iclStartDate |-> NoDate, iclEndDate |-> NoDate,
     interestMethod |-> "Compound", interestRate |-> 12, tdsRate |-> 10]

\* Lines 131-139: a new ledger.  Date.now() is taken to differ from the ids
\* in use.
NewLedger(newId) ==
    [id |-> newId, customer |-> NewCustomer, transactions |-> <<>>,
     calculatedLedger |-> <<>>]

\* The fields the customer form changes, and the values typed into them.
AppFields == {"name", "iclStartDate", "interestMethod"}

AppFieldValues(name) ==
    IF name = "name" THEN {"", "A"}
    ELSE IF name = "iclStartDate" THEN {NoDate, Date(2023, 12, 31)}
    ELSE Methods

\* The transactions the transaction form submits.
AppTransactions ==
    {[date |-> Date(2023, 12, 20), paid |-> 7300, repaid |-> 0],
     [date |-> Date(2023, 12, 31), paid |-> 0, repaid |-> 3650]}

\* The quarter end 2023-12-31 is behind the wall clock.
AppClockDates == {Date(2024, 1, 10)}

\* Line 32: ledgers.find(l => l.id === activeLedgerId), 0 for undefined.
ActiveIndex ==
    LET found == {k \in 1..Len(ledgers) : ledgers[k].id = activeLedgerId}
    IN  IF found = {} THEN 0 ELSE CHOOSE k \in found : \A j \in found : k <= j

\* prev.map(l => l.id === activeLedgerId ? f(l) : l), given f(l) of every l.
MapActive(mapped) ==
    [k \in 1..Len(ledgers) |->
        IF ledgers[k].id = activeLedgerId THEN mapped[k] ELSE ledgers[k]]

\* Line 151: { ...l, customer: { ...l.customer, [name]: value } }.
WithField(l, name, value) ==
    [l EXCEPT !.customer = [l.customer EXCEPT ![name] = value]]

\* Line 161: { ...l, calculatedLedger: updatedLedgerRows }.
WithRows(l, updatedLedgerRows) == [l EXCEPT !.calculatedLedger = updatedLedgerRows]

\* Lines 168-170: the transaction appended and the rows computed anew.
WithTransaction(l, newTransaction, now) ==
    [l EXCEPT !.transactions = Append(l.transactions, newTransaction),
              !.calculatedLedger =
                  GenerateLedger(l.customer,
                                 Append(l.transactions, newTransaction), now)]

\* The variables the App component does not use.
notAppVars == <<customer, transactions, pc, sortedTransactions,
                uniqueSortedDates, i, runningPrincipal, cumulativeInterest,
                newLedgerRows, result, run, firstResult, sampleYear,
                sampleDaysInYear, sampleInterest, sampleAmount, sampleDays,
                runVars>>

InitApp ==
    /\ customer = NewCustomer
    /\ transactions = <<>>
    /\ clock \in {parseDate(s) : s \in AppClockDates}
    /\ pc = "app"
    /\ Idle
    /\ result = <<>>
    /\ run = 1
    /\ firstResult = <<>>
    /\ NoSample
    /\ NoRun
    /\ NoApp

\* Lines 130-145, called by the effect of lines 177-181 when the component
\* has mounted with no ledger and by the button of line 189.
handleAddNewLedger ==
    /\ pc = "app"
    /\ Len(ledgers) < MaxLedgers
    /\ LET newId == Len(ledgers) + 1
       IN  /\ ledgers' = Append(ledgers, NewLedger(newId))
           /\ activeLedgerId' = newId
    /\ showCustomerForm' = TRUE
    /\ showTransactionForm' = FALSE
    /\ UNCHANGED clock
    /\ UNCHANGED notAppVars

\* Lines 147-154: a field of the customer form changes.
handleCustomerChange ==
    /\ pc = "app"
    /\ ActiveIndex # 0
    /\ showCustomerForm
    /\ \E name \in AppFields : \E value \in AppFieldValues(name) :
           ledgers' = MapActive([k \in 1..Len(ledgers) |->
                          WithField(ledgers[k], name, value)])
    /\ UNCHANGED <<activeLedgerId, showCustomerForm, showTransactionForm, clock>>
    /\ UNCHANGED notAppVars

\* Lines 156-163, called when the customer form is submitted (lines 262-266):
\* the browser submits the form only with its required fields filled in.
handleSaveCustomer ==
    /\ pc = "app"
    /\ ActiveIndex # 0
    /\ showCustomerForm
    /\ ledgers[ActiveIndex].customer.name # ""
    /\ ledgers[ActiveIndex].customer.iclStartDate # NoDate
    /\ showCustomerForm' = FALSE
    /\ ledgers' = MapActive([k \in 1..Len(ledgers) |->
                       WithRows(ledgers[k],
                                GenerateLedger(ledgers[ActiveIndex].customer,
                                               ledgers[ActiveIndex].transactions,
                                               clock))])
    /\ UNCHANGED <<activeLedgerId, showTransactionForm, clock>>
    /\ UNCHANGED notAppVars

\* Lines 165-175, called by the transaction form (lines 308-325) with a
\* transaction that is not dated after the end date and has an amount.
handleAddTransaction ==
    /\ pc = "app"
    /\ ActiveIndex # 0
    /\ showTransactionForm
    /\ Len(ledgers[ActiveIndex].transactions) < MaxAppTx
    /\ \E newTransaction \in AppTransactions :
           /\ ~(/\ parseDate(ledgers[ActiveIndex].customer.iclEndDate) # Null
                /\ isAfter(parseDate(newTransaction.date),
                           parseDate(ledgers[ActiveIndex].customer.iclEndDate)))
           /\ (newTransaction.paid > 0 \/ newTransaction.repaid > 0)
           /\ ledgers' = MapActive([k \in 1..Len(ledgers) |->
                              WithTransaction(ledgers[k], newTransaction, clock)])
    /\ showTransactionForm' = FALSE
    /\ UNCHANGED <<activeLedgerId, showCustomerForm, clock>>
    /\ UNCHANGED notAppVars

\* Line 218: the Edit / Hide button of the customer panel.
ToggleCustomerForm ==
    /\ pc = "app"
    /\ ActiveIndex # 0
    /\ showCustomerForm' = ~showCustomerForm
    /\ UNCHANGED <<ledgers, activeLedgerId, showTransactionForm, clock>>
    /\ UNCHANGED notAppVars

\* Line 239: the Add / Cancel button of the transaction panel, disabled
\* while the active ledger has no start date.
ToggleTransactionForm ==
    /\ pc = "app"
    /\ ActiveIndex # 0
    /\ ledgers[ActiveIndex].customer.iclStartDate # NoDate
    /\ showTransactionForm' = ~showTransactionForm
    /\ UNCHANGED <<ledgers, activeLedgerId, showCustomerForm, clock>>
    /\ UNCHANGED notAppVars

\* Lines 193-208: the select of the active ledger, shown with more than one
\* ledger.
SelectLedger ==
    /\ pc = "app"
    /\ Len(ledgers) > 1
    /\ \E k \in 1..Len(ledgers) :
           /\ ledgers[k].id # activeLedgerId
           /\ activeLedgerId' = ledgers[k].id
    /\ UNCHANGED <<ledgers, showCustomerForm, showTransactionForm, clock>>
    /\ UNCHANGED notAppVars

NextApp ==
    \/ handleAddNewLedger
    \/ handleCustomerChange
    \/ handleSaveCustomer
    \/ handleAddTransaction
    \/ ToggleCustomerForm
    \/ ToggleTransactionForm
    \/ SelectLedger

SpecApp == InitApp /\ [][NextApp]_vars

---------------------------------------------------------------------------
(* calculateLedger of src/run.ts.  An instant is a number of minutes since *)
(* 1970-01-01T00:00Z; timezoneOffset is the offset of the host's zone east *)
(* of UTC, in minutes.  A date-only string is parsed as midnight UTC, a    *)
(* string with a time and no zone as local time.                           *)

\* 1000 * 60 * 60 * 24 milliseconds, in minutes.
MinutesPerDay == 1440

\* new Date('yyyy-MM-dd').
newDate(s) == DaysFromCivil(s.y, s.m, s.d) * MinutesPerDay

\* new Date('yyyy-MM-ddT00:00:00').
newDateLocal(s, tz) == newDate(s) - tz

\* getFullYear(), getMonth() + 1 and getDate() of an instant.
localDate(t, tz) == CivilFromDays((t + tz) \div MinutesPerDay)

formatDate(t, tz) == localDate(t, tz)

\* new Date(): the first instant of the wall clock's day (only the day
\* matters to the comparison of line 199).
currentDateOf(now, tz) == DayOf(now) * MinutesPerDay - tz

getQuarterEnd(t, tz) ==
    LET d == localDate(t, tz)
        month == d.m - 1
        year == IF month >= 3 THEN d.y ELSE d.y - 1
    IN  IF month >= 3 /\ month <= 5 THEN newDateLocal(Date(year, 6, 30), tz)
        ELSE IF month >= 6 /\ month <= 8 THEN newDateLocal(Date(year, 9, 30), tz)
        ELSE IF month >= 9 /\ month <= 11 THEN newDateLocal(Date(year, 12, 31), tz)
        ELSE newDateLocal(Date(year + 1, 3, 31), tz)

\* Math.ceil((end - start) / one day).
getDaysBetween(startDate, endDate) == -((startDate - endDate) \div MinutesPerDay)

getQuartersBetween(startDate, endDate, tz) ==
    LET start == localDate(startDate, tz)
        end == localDate(endDate, tz)
        months == (end.y - start.y) * 12 + (end.m - start.m)
    IN  months \div 3

\* x.toFixed(2) read back by parseFloat: x to the nearest hundredth, a half
\* away from zero.
toFixed2(x) ==
    LET a == IF x.n < 0 THEN RNeg(x) ELSE x
        whole == a.n \div a.d
        rest == a.n % a.d
        h == 100 * whole + (200 * rest + a.d) \div (2 * a.d)
    IN  IF x.n < 0 THEN Rat(-h, 100) ELSE Rat(h, 100)

\* Math.pow(b, q) for a whole q >= 0.
RECURSIVE RPow(_, _)
RPow(b, q) == IF q = 0 THEN RInt(1) ELSE RMul(b, RPow(b, q - 1))

\* Lines 207-210: the quarter-end after a quarter-end.
NextQuarterEnd(currentQuarterEnd, tz) ==
    LET d == localDate(currentQuarterEnd, tz)
        month == d.m - 1
    IN  IF month = 5 THEN newDateLocal(Date(d.y, 9, 30), tz)
        ELSE IF month = 8 THEN newDateLocal(Date(d.y, 12, 31), tz)
        ELSE IF month = 11 THEN newDateLocal(Date(d.y + 1, 3, 31), tz)
        ELSE newDateLocal(Date(d.y, 6, 30), tz)

\* Lines 196-211: the quarter-end events up to the current date.
RECURSIVE QuarterEndEvents(_, _, _)
QuarterEndEvents(currentQuarterEnd, currentDate, tz) ==
    IF currentQuarterEnd <= currentDate
    THEN <<[date |-> currentQuarterEnd, type |-> "quarter_end",
            data |-> currentQuarterEnd]>>
             \o QuarterEndEvents(NextQuarterEnd(currentQuarterEnd, tz), currentDate, tz)
    ELSE <<>>

\* Lines 187-193.
TransactionEvents(txs) ==
    [k \in 1..Len(txs) |->
        [date |-> newDate(txs[k].date), type |-> "transaction", data |-> txs[k]]]

\* Array.prototype.sort is stable: an element is put after those it does
\* not precede.  By new Date(x.date), lines 135 and 321.
RECURSIVE InsertByDate(_, _)
InsertByDate(x, sorted) ==
    IF sorted = <<>> THEN <<x>>
    ELSE IF newDate(x.date) < newDate(Head(sorted).date) THEN <<x>> \o sorted
         ELSE <<Head(sorted)>> \o InsertByDate(x, Tail(sorted))

RECURSIVE SortByDateString(_)
SortByDateString(seq) ==
    IF seq = <<>> THEN <<>>
    ELSE InsertByDate(seq[Len(seq)], SortByDateString(SubSeq(seq, 1, Len(seq) - 1)))

\* The comparator of lines 214-222 is negative.
EventBefore(a, b) ==
    \/ a.date < b.date
    \/ a.date = b.date /\ a.type = "transaction" /\ b.type = "quarter_end"

RECURSIVE InsertEvent(_, _)
InsertEvent(x, sorted) ==
    IF sorted = <<>> THEN <<x>>
    ELSE IF EventBefore(x, Head(sorted)) THEN <<x>> \o sorted
         ELSE <<Head(sorted)>> \o InsertEvent(x, Tail(sorted))

RECURSIVE SortEvents(_)
SortEvents(seq) ==
    IF seq = <<>> THEN <<>>
    ELSE InsertEvent(seq[Len(seq)], SortEvents(SubSeq(seq, 1, Len(seq) - 1)))

\* Lines 148-160: the interest of a period of days days and quarters
\* quarters.
InterestOfPeriod(principal, cust, days, quarters, isAfterICL) ==
    IF isAfterICL /\ cust.interestMethod = "Compound" /\ quarters > 0
    THEN RMul(principal,
              RSub(RPow(RAdd(RInt(1), Rat(cust.interestRate, 400)), quarters),
                   RInt(1)))
    ELSE RMul(principal, Rat(cust.interestRate * days, 100 * 365))

\* Lines 166-178: the Interest row.
InterestRow(endDate, reason, principal, days, interest, tds, netInterest, cum, tz) ==
    [date |-> formatDate(endDate, tz), type |-> "Interest",
     description |-> reason,
     grossInterest |-> toFixed2(interest),
     tds |-> toFixed2(tds),
     netInterest |-> toFixed2(netInterest),
     principal |-> toFixed2(principal),
     outstandingBalance |-> toFixed2(principal),
     cumulativeNetInterest |-> toFixed2(cum),
     balance |-> toFixed2(RAdd(principal, cum)),
     days |-> days]

\* Lines 162-180: the net interest is added to cumulativeNetInterest, the
\* row is pushed and the net interest returned.
InterestEntry(endDate, reason, principal, days, interest, tds, netInterest, cum, tz) ==
    [pushed |-> TRUE, netInterest |-> netInterest, cumulativeNetInterest |-> cum,
     row |-> InterestRow(endDate, reason, principal, days, interest, tds,
                         netInterest, cum, tz)]

\* Lines 162-164: tds, netInterest and cumulativeNetInterest of an interest.
EntryOfTds(endDate, reason, principal, days, interest, tds, cumBefore, tz) ==
    InterestEntry(endDate, reason, principal, days, interest, tds,
                  RSub(interest, tds), RAdd(cumBefore, RSub(interest, tds)), tz)

EntryOfInterest(endDate, reason, principal, days, interest, cust, cumBefore, tz) ==
    EntryOfTds(endDate, reason, principal, days, interest,
               RMul(interest, Rat(cust.tdsRate, 100)), cumBefore, tz)

\* Lines 142-181: addInterestEntry, with the cumulativeNetInterest it
\* updates: whether a row is pushed, the row, the net interest returned.
addInterestEntry(startDate, endDate, principal, reason, cust, cumBefore, tz) ==
    IF RNonPos(principal) \/ getDaysBetween(startDate, endDate) <= 0
    THEN [pushed |-> FALSE, netInterest |-> RZero,
          cumulativeNetInterest |-> cumBefore]
    ELSE EntryOfInterest(endDate, reason, principal,
                         getDaysBetween(startDate, endDate),
                         InterestOfPeriod(principal, cust,
                             getDaysBetween(startDate, endDate),
                             getQuartersBetween(startDate, endDate, tz),
                             startDate >= newDate(cust.iclStartDate)),
                         cust, cumBefore, tz)

\* The rows an interest entry adds to the ledger.
PushedRows(entry) == IF entry.pushed THEN <<entry.row>> ELSE <<>>

\* Lines 230-241 and 282-295: the row of a transaction.
TransactionRow(transaction, amountRepaid, balance, cum) ==
    [date |-> transaction.date,
     type |-> IF transaction.amountPaid > 0 THEN "Deposit" ELSE "Repayment",
     amountPaid |-> transaction.amountPaid,
     amountRepaid |-> amountRepaid,
     netAmount |-> transaction.amountPaid - amountRepaid,
     principal |-> toFixed2(balance),
     outstandingBalance |-> toFixed2(balance),
     cumulativeNetInterest |-> toFixed2(cum),
     balance |-> toFixed2(RAdd(balance, cum))]

\* Lines 246-253: events.findIndex(...) of the first transaction, 0 for -1.
FirstTransactionIndex(evs, firstTransaction) ==
    LET found == {k \in 1..Len(evs) :
                     /\ evs[k].type = "transaction"
                     /\ evs[k].data.date = firstTransaction.date
                     /\ evs[k].data.amountPaid = firstTransaction.amountPaid}
    IN  IF found = {} THEN 0 ELSE CHOOSE k \in found : \A j \in found : k <= j

\* events.splice(index, 1).
Splice(evs, index) ==
    IF index = 0 THEN evs
    ELSE SubSeq(evs, 1, index - 1) \o SubSeq(evs, index + 1, Len(evs))

\* The inputs of calculateLedger the model draws from: one start date on a
\* quarter's first day and one inside the quarter, transactions before, on
\* and after them and on the quarter-end 2023-06-30, the current date after
\* the quarter-end 2023-09-30.
RunStartDates == {Date(2023, 4, 1), Date(2023, 5, 10)}

RunTxDates == {Date(2023, 4, 1), Date(2023, 5, 20), Date(2023, 6, 30)}

\* The amounts and the rate are chosen for an interest of whole hundredths:
\* 10000 at 73% a year earns 20 a day.
RunAmounts == {<<10000, 0>>, <<0, 5000>>, <<10000, 5000>>}

RunClockDates == {Date(2023, 10, 1)}

\* UTC and India Standard Time.
TimezoneOffsets == {0, 330}

RunCustomers ==
    [iclStartDate : RunStartDates, iclEndDate : {NoDate},
     interestMethod : Methods, interestRate : {73}, tdsRate : {50}]

RunTransactions ==
    {[date |-> d, amountPaid |-> a[1], amountRepaid |-> a[2]] :
        d \in RunTxDates, a \in RunAmounts}

\* customer.transactions, which addTransaction (line 70) keeps sorted by date.
RunTransactionLists ==
    {l \in UNION {[1..n -> RunTransactions] : n \in 0..MaxTx} :
        \A k \in 1..(Len(l) - 1) : newDate(l[k].date) <= newDate(l[k + 1].date)}

\* The variables calculateLedger does not use.
notRunVars == <<uniqueSortedDates, runningPrincipal, cumulativeInterest,
                newLedgerRows, run, firstResult, sampleYear, sampleDaysInYear,
                sampleInterest, sampleAmount, sampleDays, appVars>>

InitRun ==
    /\ customer \in RunCustomers
    /\ transactions \in RunTransactionLists
    /\ clock \in {parseDate(s) : s \in RunClockDates}
    /\ timezoneOffset \in TimezoneOffsets
    /\ pc = "calculate"
    /\ Idle
    /\ result = <<>>
    /\ run = 1
    /\ firstResult = <<>>
    /\ NoSample
    /\ events = <<>>
    /\ ledger = <<>>
    /\ outstandingBalance = RZero
    /\ cumulativeNetInterest = RZero
    /\ lastEventDate = 0
    /\ NoApp

\* Lines 133-222: the sorted transactions, the initial balances and the
\* sorted timeline of events.
BuildEvents ==
    /\ pc = "calculate"
    /\ LET iclStart == newDate(customer.iclStartDate)
           sorted == SortByDateString(transactions)
       IN  /\ sortedTransactions' = sorted
           /\ lastEventDate' = iclStart
           /\ events' = SortEvents(TransactionEvents(sorted) \o
                            QuarterEndEvents(getQuarterEnd(iclStart, timezoneOffset),
                                             currentDateOf(clock, timezoneOffset),
                                             timezoneOffset))
    /\ ledger' = <<>>
    /\ outstandingBalance' = RZero
    /\ cumulativeNetInterest' = RZero
    /\ pc' = "opening"
    /\ UNCHANGED <<customer, transactions, clock, i, result, timezoneOffset>>
    /\ UNCHANGED notRunVars

\* Lines 224-255: a first transaction with a paid amount opens the balance
\* and is taken off the timeline.
OpeningBalance ==
    /\ pc = "opening"
    /\ IF Len(sortedTransactions) > 0 /\ sortedTransactions[1].amountPaid > 0
       THEN LET firstTransaction == sortedTransactions[1]
                balance == RInt(firstTransaction.amountPaid)
            IN  /\ outstandingBalance' = balance
                /\ ledger' = Append(ledger,
                       TransactionRow(firstTransaction, 0, balance,
                                      cumulativeNetInterest))
                /\ lastEventDate' = newDate(firstTransaction.date)
                /\ events' = Splice(events,
                                    FirstTransactionIndex(events, firstTransaction))
       ELSE UNCHANGED <<outstandingBalance, ledger, lastEventDate, events>>
    /\ i' = 1
    /\ pc' = "events"
    /\ UNCHANGED <<customer, transactions, clock, sortedTransactions, result,
                   timezoneOffset, cumulativeNetInterest>>
    /\ UNCHANGED notRunVars

\* Lines 279-297: the transaction is applied to the balance and its row
\* pushed after the interest row, if any.
ApplyTransaction(transaction, transactionDate, entry, balance) ==
    /\ outstandingBalance' = balance
    /\ cumulativeNetInterest' = entry.cumulativeNetInterest
    /\ ledger' = ledger \o PushedRows(entry) \o
           <<TransactionRow(transaction, transaction.amountRepaid, balance,
                            entry.cumulativeNetInterest)>>
    /\ lastEventDate' = transactionDate

\* Lines 262-280: the interest up to the transaction joins the balance in
\* Compound mode, then the net amount of the transaction.
TransactionEvent(transaction, transactionDate, entry, compounds) ==
    ApplyTransaction(transaction, transactionDate, entry,
        RAdd((IF compounds /\ RPos(entry.netInterest)
              THEN RAdd(outstandingBalance, entry.netInterest)
              ELSE outstandingBalance),
             RInt(transaction.amountPaid - transaction.amountRepaid)))

\* Lines 303-316: the quarterly accrual.
QuarterEndEvent(quarterEndDate, entry, compound) ==
    /\ outstandingBalance' =
           IF compound /\ RPos(entry.netInterest)
           THEN RAdd(outstandingBalance, entry.netInterest)
           ELSE outstandingBalance
    /\ cumulativeNetInterest' = entry.cumulativeNetInterest
    /\ ledger' = ledger \o PushedRows(entry)
    /\ lastEventDate' = quarterEndDate

\* Lines 258-319: one event of the timeline.
ProcessRunEvent ==
    /\ pc = "events"
    /\ i <= Len(events)
    /\ IF events[i].type = "transaction"
       THEN TransactionEvent(events[i].data, events[i].date,
                addInterestEntry(lastEventDate, events[i].date,
                    (IF lastEventDate < events[i].date
                     THEN outstandingBalance ELSE RZero),
                    "Interest till transaction", customer,
                    cumulativeNetInterest, timezoneOffset),
                /\ lastEventDate < events[i].date
                /\ lastEventDate >= newDate(customer.iclStartDate)
                /\ customer.interestMethod = "Compound")
       ELSE IF /\ RPos(outstandingBalance)
               /\ lastEventDate < events[i].date
               /\ events[i].date >= newDate(customer.iclStartDate)
            THEN QuarterEndEvent(events[i].date,
                     addInterestEntry(lastEventDate, events[i].date,
                         outstandingBalance, "Quarterly accrual", customer,
                         cumulativeNetInterest, timezoneOffset),
                     customer.interestMethod = "Compound")
            ELSE UNCHANGED <<outstandingBalance, cumulativeNetInterest,
                             ledger, lastEventDate>>
    /\ i' = i + 1
    /\ UNCHANGED <<customer, transactions, clock, pc, sortedTransactions, result,
                   timezoneOffset, events>>
    /\ UNCHANGED notRunVars

\* Line 321: the ledger, sorted by date, is returned.
ReturnLedger ==
    /\ pc = "events"
    /\ i > Len(events)
    /\ result' = SortByDateString(ledger)
    /\ pc' = "returned"
    /\ UNCHANGED <<customer, transactions, clock, sortedTransactions, i,
                   timezoneOffset, events, ledger, outstandingBalance,
                   cumulativeNetInterest, lastEventDate>>
    /\ UNCHANGED notRunVars

NextRun ==
    \/ BuildEvents
    \/ OpeningBalance
    \/ ProcessRunEvent
    \/ ReturnLedger

SpecRun == InitRun /\ [][NextRun]_vars

---------------------------------------------------------------------------
(* Vocabulary of the properties: stated on date strings and ledger rows,  *)
(* without the engine's own operators.                                     *)

DateLT(a, b) ==
    \/ a.y < b.y
    \/ a.y = b.y /\ a.m < b.m
    \/ a.y = b.y /\ a.m = b.m /\ a.d < b.d

DateLE(a, b) == a = b \/ DateLT(a, b)

\* Mar 31, Jun 30, Sep 30 or Dec 31.
IsCalendarQuarterEnd(s) ==
    \/ s.m = 3 /\ s.d = 31
    \/ s.m = 6 /\ s.d = 30
    \/ s.m = 9 /\ s.d = 30
    \/ s.m = 12 /\ s.d = 31

IsCapitalization(r) == r.description = "Quarterly Interest Capitalized"

HasEndDate == customer.iclEndDate # NoDate

\* A transaction the end date does not exclude.
Retained(t) == ~HasEndDate \/ DateLE(t.date, customer.iclEndDate)

RECURSIVE RetainedPaidOn(_, _)
RetainedPaidOn(txs, dt) ==
    IF txs = <<>> THEN 0
    ELSE (IF Head(txs).date = dt /\ Retained(Head(txs)) THEN Head(txs).paid ELSE 0)
         + RetainedPaidOn(Tail(txs), dt)

RECURSIVE RetainedRepaidOn(_, _)
RetainedRepaidOn(txs, dt) ==
    IF txs = <<>> THEN 0
    ELSE (IF Head(txs).date = dt /\ Retained(Head(txs)) THEN Head(txs).repaid ELSE 0)
         + RetainedRepaidOn(Tail(txs), dt)

\* The running principal / cumulative net interest carried into row k.
PrincipalBefore(rows, k) == IF k = 1 THEN RZero ELSE rows[k - 1].principal

CumulativeBefore(rows, k) ==
    IF k = 1 \/ IsCapitalization(rows[k - 1]) THEN RZero
    ELSE rows[k - 1].cumulativeInterest

\* Terms the specification calls invalid: a negative rate, or an end date
\* before the start date.
InvalidTerms ==
    \/ customer.interestRate < 0
    \/ customer.tdsRate < 0
    \/ /\ customer.iclEndDate # NoDate
       /\ customer.iclStartDate # NoDate
       /\ DateLT(customer.iclEndDate, customer.iclStartDate)

\* x rounded to 2 decimals, in hundredths.
Round2(x) == (200 * x.n + x.d) \div (2 * x.d)

---------------------------------------------------------------------------
(* C1 *)

\* C1: determinism. Two invocations of generateLedger on the same (valid)
\* customer terms and the same transactions return the same ledger, whatever
\* the wall clock reads at each invocation.
C1_Deterministic ==
    (pc = "done" /\ run = 2 /\ ~InvalidTerms) => result = firstResult

---------------------------------------------------------------------------
(* C2 *)

\* C2: ordering. Adjacent ledger rows are non-decreasing by date; of two rows
\* sharing a date the first is the event's own row (which carries the
\* transaction amounts) and the second is the Capitalization row, with no
\* amounts; the timeline holds each event date once, in ascending order.
C2_Ordering ==
    /\ \A k \in 1..(Len(newLedgerRows) - 1) :
          /\ DateLE(newLedgerRows[k].date, newLedgerRows[k + 1].date)
          /\ newLedgerRows[k].date = newLedgerRows[k + 1].date =>
                /\ ~IsCapitalization(newLedgerRows[k])
                /\ IsCapitalization(newLedgerRows[k + 1])
                /\ newLedgerRows[k + 1].paid = 0
                /\ newLedgerRows[k + 1].repaid = 0
    /\ \A j, k \in 1..Len(uniqueSortedDates) :
          j < k => DateLT(format(uniqueSortedDates[j]), format(uniqueSortedDates[k]))

\* A returned ledger in which a deposit row is followed by a Capitalization
\* row of the same date, and a later-dated row follows, from transactions
\* that were handed over out of date order.
C2_Witness ==
    /\ pc = "done"
    /\ Len(transactions) = 2
    /\ DateLT(transactions[2].date, transactions[1].date)
    /\ \E k \in 1..(Len(result) - 2) :
          /\ result[k].paid > 0
          /\ result[k].date = result[k + 1].date
          /\ IsCapitalization(result[k + 1])
          /\ DateLT(result[k + 1].date, result[k + 2].date)

---------------------------------------------------------------------------
(* C3 *)

\* C3: capitalization conservation. Every Capitalization row's principal is
\* the principal of the row before it plus that row's cumulative net
\* interest, and the cumulative net interest carried on after it is 0: the
\* next row's cumulative interest is its own net interest alone, and when the
\* Capitalization row is the last one the running state holds its principal
\* and a cumulative interest of 0.
C3_CapitalizationConserves ==
    \A k \in 1..Len(newLedgerRows) :
        IsCapitalization(newLedgerRows[k]) =>
            /\ k > 1
            /\ newLedgerRows[k].principal =
                   RAdd(newLedgerRows[k - 1].principal,
                        newLedgerRows[k - 1].cumulativeInterest)
            /\ k < Len(newLedgerRows) =>
                   newLedgerRows[k + 1].cumulativeInterest =
                       newLedgerRows[k + 1].netInterest
            /\ k = Len(newLedgerRows) =>
                   /\ cumulativeInterest = RZero
                   /\ runningPrincipal = newLedgerRows[k].principal

\* A Capitalization of a positive amount, followed by a later event that
\* accrues interest again.
C3_Witness ==
    \E k \in 2..(Len(newLedgerRows) - 1) :
        /\ IsCapitalization(newLedgerRows[k])
        /\ RPos(newLedgerRows[k - 1].cumulativeInterest)
        /\ RPos(newLedgerRows[k + 1].netInterest)

---------------------------------------------------------------------------
(* C4 *)

\* C4: capitalization policy. An event's row is followed by a Capitalization
\* row of its date exactly when the method is Compound, the date is a
\* calendar quarter-end, the date is not before the start date and the
\* cumulative net interest on the event's row is positive; a Capitalization
\* row only ever follows such a row. With the Simple method no
\* Capitalization row appears and the cumulative net interest is never reset:
\* every row's cumulative interest is the previous row's plus its own net.
C4_CapitalizationPolicy ==
    /\ \A k \in 1..Len(newLedgerRows) :
          LET r == newLedgerRows[k]
              capitalized == /\ k < Len(newLedgerRows)
                             /\ IsCapitalization(newLedgerRows[k + 1])
                             /\ newLedgerRows[k + 1].date = r.date
          IN  IF IsCapitalization(r)
              THEN k > 1 /\ ~IsCapitalization(newLedgerRows[k - 1])
              ELSE capitalized <=>
                      /\ customer.interestMethod = "Compound"
                      /\ IsCalendarQuarterEnd(r.date)
                      /\ DateLE(customer.iclStartDate, r.date)
                      /\ RPos(r.cumulativeInterest)
    /\ customer.interestMethod = "Simple" =>
          \A k \in 1..Len(newLedgerRows) :
              /\ ~IsCapitalization(newLedgerRows[k])
              /\ newLedgerRows[k].cumulativeInterest =
                     RAdd(IF k = 1 THEN RZero
                          ELSE newLedgerRows[k - 1].cumulativeInterest,
                          newLedgerRows[k].netInterest)

\* Compound method, a quarter-end event before the start date with positive
\* cumulative interest: all of the policy's conditions but one hold, and the
\* row is not capitalized.
C4_Witness ==
    /\ customer.interestMethod = "Compound"
    /\ \E k \in 1..Len(newLedgerRows) :
          /\ IsCalendarQuarterEnd(newLedgerRows[k].date)
          /\ RPos(newLedgerRows[k].cumulativeInterest)
          /\ DateLT(newLedgerRows[k].date, customer.iclStartDate)
          /\ k < Len(newLedgerRows)
          /\ ~IsCapitalization(newLedgerRows[k + 1])

---------------------------------------------------------------------------
(* C5 *)

\* C5: end-date exclusion. With an end date set, no row is dated after it;
\* every event row carries exactly the summed amounts of the retained
\* transactions of its date, and its principal is the principal before it
\* plus those amounts' net; and in a returned non-empty ledger every retained
\* transaction, also one dated before the start date, has a row of its date.
C5_EndDateExclusion ==
    HasEndDate =>
        /\ \A k \in 1..Len(newLedgerRows) :
              LET r == newLedgerRows[k]
              IN  /\ DateLE(r.date, customer.iclEndDate)
                  /\ ~IsCapitalization(r) =>
                        /\ r.paid = RetainedPaidOn(transactions, r.date)
                        /\ r.repaid = RetainedRepaidOn(transactions, r.date)
                        /\ r.principal = RAdd(PrincipalBefore(newLedgerRows, k),
                                              RInt(r.paid - r.repaid))
        /\ (pc = "done" /\ result # <<>>) =>
              \A n \in 1..Len(transactions) :
                  Retained(transactions[n]) =>
                      \E k \in 1..Len(result) :
                          /\ result[k].date = transactions[n].date
                          /\ ~IsCapitalization(result[k])

\* A returned ledger for terms with an end date, one transaction after the
\* end date and one before the start date.
C5_Witness ==
    /\ pc = "done"
    /\ result # <<>>
    /\ HasEndDate
    /\ \E n \in 1..Len(transactions) : DateLT(customer.iclEndDate, transactions[n].date)
    /\ \E n \in 1..Len(transactions) :
          /\ DateLT(transactions[n].date, customer.iclStartDate)
          /\ transactions[n].paid > 0

---------------------------------------------------------------------------
(* C6 *)

---------------------------------------------------------------------------
(* C7 *)

\* The days from the event of row k to the next event of a returned ledger,
\* 1 for the last event.
PeriodDays(rows, k) ==
    LET later == {j \in (k + 1)..Len(rows) : ~IsCapitalization(rows[j])}
    IN  IF later = {} THEN 1
        ELSE LET nxt == rows[CHOOSE j \in later : \A h \in later : j <= h].date
                 cur == rows[k].date
             IN  DaysFromCivil(nxt.y, nxt.m, nxt.d) - DaysFromCivil(cur.y, cur.m, cur.d)

\* principal x rate x days / (100 x days in the year of the row's date).
AccrualOf(rows, k) ==
    RMul(rows[k].principal,
         Rat(customer.interestRate * PeriodDays(rows, k),
             100 * getDaysInYear(rows[k].date.y)))

\* C7, as stated: on every event row of a ledger returned for valid terms the
\* gross interest is principal x rate x periodDays / (100 x daysInYear(year
\* of the date)), for every value of the running principal.
C7_AccrualEveryPrincipal ==
    (pc = "done" /\ ~InvalidTerms) =>
        \A k \in 1..Len(result) :
            ~IsCapitalization(result[k]) => result[k].interest = AccrualOf(result, k)

\* C7, amended: on every event row of a returned ledger the gross interest is
\* principal x rate x periodDays / (100 x daysInYear(year of the date)) when
\* the running principal is positive, and 0 when it is zero or negative.
C7_AccrualPositivePrincipal ==
    pc = "done" =>
        \A k \in 1..Len(result) :
            ~IsCapitalization(result[k]) =>
                result[k].interest =
                    IF RPos(result[k].principal) THEN AccrualOf(result, k) ELSE RZero

\* A returned ledger with an over-repaid (negative) principal on one row and
\* interest accrued in the leap year 2024 on another.
C7_Witness ==
    /\ pc = "done"
    /\ \E k \in 1..Len(result) : result[k].principal.n < 0
    /\ \E k \in 1..Len(result) : RPos(result[k].interest) /\ result[k].date.y = 2024

---------------------------------------------------------------------------
(* C8 *)

\* C8: TDS split. On every row tds = interest x tdsRate / 100, netInterest =
\* interest - tds, tds + netInterest = interest, and the row's cumulative
\* interest is the cumulative interest carried into it plus its netInterest.
C8_TdsSplit ==
    \A k \in 1..Len(newLedgerRows) :
        LET r == newLedgerRows[k]
        IN  /\ RMul(r.tds, RInt(100)) = RMul(r.interest, RInt(customer.tdsRate))
            /\ r.netInterest = RAdd(r.interest, RNeg(r.tds))
            /\ RAdd(r.tds, r.netInterest) = r.interest
            /\ r.cumulativeInterest =
                   RAdd(IF IsCapitalization(r)
                        THEN newLedgerRows[k - 1].cumulativeInterest
                        ELSE CumulativeBefore(newLedgerRows, k),
                        r.netInterest)

\* A row with positive TDS whose cumulative interest adds to a positive
\* amount carried in from the row before.
C8_Witness ==
    \E k \in 2..Len(newLedgerRows) :
        /\ RPos(newLedgerRows[k].tds)
        /\ RPos(CumulativeBefore(newLedgerRows, k))
        /\ newLedgerRows[k].cumulativeInterest # newLedgerRows[k].netInterest

---------------------------------------------------------------------------
(* C9 *)

IsGregorianLeap(y) == (y % 4 = 0 /\ y % 100 # 0) \/ y % 400 = 0

\* C9: day count. getDaysInYear(y) is 366 exactly for the Gregorian leap
\* years and 365 otherwise, and calculateSimpleInterest(100000, 12, 30, y)
\* rounds to 983.61 in a leap year and to 986.30 otherwise.
C9_DayCount ==
    pc = "counted" =>
        /\ sampleDaysInYear = 366 <=> IsGregorianLeap(sampleYear)
        /\ sampleDaysInYear = 365 <=> ~IsGregorianLeap(sampleYear)
        /\ Round2(sampleInterest) = IF IsGregorianLeap(sampleYear) THEN 98361 ELSE 98630

\* The helpers applied to a century year that is no leap year.
C9_Witness ==
    /\ pc = "counted"
    /\ sampleYear % 100 = 0
    /\ sampleYear % 400 # 0
    /\ sampleDaysInYear = 365

---------------------------------------------------------------------------
(* C10 *)

\* C10: invalid terms fail fast. With a negative rate or TDS rate, or an end
\* date before the start date, generateLedger produces no row and returns
\* none.
C10_InvalidTermsFailFast ==
    InvalidTerms => (newLedgerRows = <<>> /\ result = <<>>)

---------------------------------------------------------------------------
(* C11 *)

\* The end date excludes every transaction of a non-empty list, the start
\* date and the rate being present: the filtered list is empty.
NoTransactionLeft ==
    /\ customer.iclStartDate # NoDate
    /\ customer.interestRate # 0
    /\ transactions # <<>>
    /\ \A k \in 1..Len(transactions) : ~Retained(transactions[k])

\* C11: empty timeline signalled. When no transaction remains after the
\* filter by end date, no row is produced and what generateLedger returns is
\* a signal of its own: it is not a ledger of rows, and it differs from what is
\* returned when the terms are missing or invalid. Stated for valid terms.
C11_EmptyTimelineSignalled ==
    (pc = "done" /\ NoTransactionLeft /\ ~InvalidTerms) =>
        /\ newLedgerRows = <<>>
        /\ result = ReturnNoTransactionLeft
        /\ result # ReturnMissingTerms

---------------------------------------------------------------------------
(* C12 *)

\* A row that carries a warning has a field of that name.
HasWarning(r) == "warning" \in DOMAIN r

\* C12: over-repayment is non-fatal and flagged. A row records a negative
\* principal as it is; every row whose principal is negative carries a
\* NegativePrincipalWarning and no other row carries one; and the calculation
\* goes on to the last event date. Stated for valid terms.
C12_NegativePrincipalFlagged ==
    ~InvalidTerms =>
        /\ \A k \in 1..Len(newLedgerRows) :
               (newLedgerRows[k].principal.n < 0) <=> HasWarning(newLedgerRows[k])
        /\ (pc = "done" /\ uniqueSortedDates # <<>>) =>
               /\ result # <<>>
               /\ result[Len(result)].date =
                      format(uniqueSortedDates[Len(uniqueSortedDates)])

---------------------------------------------------------------------------
(* C13 *)

\* A rate that is not negative and a TDS rate within 0..100.
RatesInRange ==
    /\ customer.interestRate >= 0
    /\ customer.tdsRate >= 0
    /\ customer.tdsRate <= 100

\* a <= b on rationals.
RLe(a, b) == RSub(b, a).n >= 0

\* C13: cumulative-interest invariant. With a rate >= 0 and a TDS rate in
\* [0, 100], the running cumulative net interest is never negative; from one
\* event's row to the next it does not decrease, except across a
\* Capitalization; and right after each Capitalization it is zero (the next
\* event starts again from its own net interest).
C13_CumulativeInterest ==
    RatesInRange =>
        /\ RLe(RZero, cumulativeInterest)
        /\ \A k \in 1..Len(newLedgerRows) :
               LET r == newLedgerRows[k]
               IN  /\ RLe(RZero, r.cumulativeInterest)
                   /\ ~IsCapitalization(r) =>
                          RLe(CumulativeBefore(newLedgerRows, k), r.cumulativeInterest)
                   /\ (IsCapitalization(r) /\ k < Len(newLedgerRows)) =>
                          newLedgerRows[k + 1].cumulativeInterest =
                              newLedgerRows[k + 1].netInterest
                   /\ (IsCapitalization(r) /\ k = Len(newLedgerRows)) =>
                          cumulativeInterest = RZero

\* Rates in range; the cumulative interest has grown over two events, has
\* been capitalized, and has grown again from zero on the event after.
C13_Witness ==
    /\ RatesInRange
    /\ \E k \in 3..(Len(newLedgerRows) - 1) :
           /\ IsCapitalization(newLedgerRows[k])
           /\ RPos(newLedgerRows[k - 2].cumulativeInterest)
           /\ RPos(RSub(newLedgerRows[k - 1].cumulativeInterest,
                        newLedgerRows[k - 2].cumulativeInterest))
           /\ RPos(newLedgerRows[k + 1].cumulativeInterest)

---------------------------------------------------------------------------
(* C14 *)

\* Some transaction is retained and the terms let the calculation run.
LedgerProduced ==
    /\ customer.iclStartDate # NoDate
    /\ customer.interestRate # 0
    /\ \E k \in 1..Len(transactions) : Retained(transactions[k])

RetainedDates == {transactions[k].date :
                     k \in {j \in 1..Len(transactions) : Retained(transactions[j])}}

\* The earliest retained transaction date.
FirstEventDate == CHOOSE a \in RetainedDates : \A b \in RetainedDates : DateLE(a, b)

\* The end date if set, else the current date.
HorizonDate == IF HasEndDate THEN customer.iclEndDate ELSE format(clock)

\* The calendar quarter-ends from a to b, both included.
QuarterEndsBetween(a, b) ==
    {q \in {Date(y, md[1], md[2]) :
               y \in a.y..b.y, md \in {<<3, 31>>, <<6, 30>>, <<9, 30>>, <<12, 31>>}} :
        DateLE(a, q) /\ DateLE(q, b)}

\* C14: quarter-end boundary generation. Every calendar quarter-end B with
\* firstEventDate <= B <= horizonDate (the end date if set, else the current
\* date) is an event date and has a ledger row, B = firstEventDate and
\* B = horizonDate included; and no quarter-end outside that range is added:
\* a row on a quarter-end that has no transaction lies within the range.
\* Stated for valid terms.
C14_QuarterEndsGenerated ==
    (pc = "done" /\ LedgerProduced /\ ~InvalidTerms) =>
        /\ \A B \in QuarterEndsBetween(FirstEventDate, HorizonDate) :
               /\ \E j \in 1..Len(uniqueSortedDates) : format(uniqueSortedDates[j]) = B
               /\ \E k \in 1..Len(result) : result[k].date = B
        /\ \A k \in 1..Len(result) :
               (IsCalendarQuarterEnd(result[k].date) /\ result[k].date \notin RetainedDates) =>
                   /\ DateLE(FirstEventDate, result[k].date)
                   /\ DateLE(result[k].date, HorizonDate)

---------------------------------------------------------------------------
(* C15 *)

HasAmounts(r) == r.paid # 0 \/ r.repaid # 0

HasInterest(r) == r.interest # RZero \/ r.tds # RZero \/ r.netInterest # RZero

---------------------------------------------------------------------------
(* C16 *)

IsTransactionRow(r) == r.description \in {"Deposit", "Repayment"}

\* C16: transaction auditability. Every event date with at least one
\* retained transaction has a row tagged Deposit or Repayment, Deposit when
\* the summed paid amount is > 0, also when the amounts are zero or net to
\* zero; a date with no transaction has no Deposit or Repayment row. Stated
\* for valid terms.
C16_TransactionRows ==
    (pc = "done" /\ LedgerProduced /\ ~InvalidTerms) =>
        /\ \A dt \in RetainedDates :
               \E k \in 1..Len(result) :
                   /\ result[k].date = dt
                   /\ IsTransactionRow(result[k])
                   /\ RetainedPaidOn(transactions, dt) > 0 =>
                          result[k].description = "Deposit"
        /\ \A k \in 1..Len(result) :
               IsTransactionRow(result[k]) => result[k].date \in RetainedDates

---------------------------------------------------------------------------
(* C17 *)

\* The retained transactions dated dt.
RetainedOn(dt) ==
    {n \in 1..Len(transactions) :
        transactions[n].date = dt /\ Retained(transactions[n])}

\* C17: principal update. The running principal starts at 0; at every event
\* date the principal after the transaction step is the principal before it
\* plus the sum, over all retained transactions of that date, of paid minus
\* repaid (transactions with both amounts zero or both positive included);
\* the row's principal field is that value, and it is the running principal
\* carried on unless a Capitalization follows.
C17_PrincipalUpdate ==
    /\ (pc = "loop" /\ newLedgerRows = <<>>) => runningPrincipal = RZero
    /\ \A k \in 1..Len(newLedgerRows) :
           LET r == newLedgerRows[k]
               net == RetainedPaidOn(transactions, r.date)
                          - RetainedRepaidOn(transactions, r.date)
           IN  /\ ~IsCapitalization(r) =>
                      r.principal = RAdd(PrincipalBefore(newLedgerRows, k), RInt(net))
               /\ k = Len(newLedgerRows) => runningPrincipal = r.principal

\* Two retained transactions on one date, one of them with both amounts
\* positive, have moved the principal of their row.
C17_Witness ==
    \E k \in 1..Len(newLedgerRows) :
        LET r == newLedgerRows[k]
        IN  /\ ~IsCapitalization(r)
            /\ Cardinality(RetainedOn(r.date)) = 2
            /\ \E n \in RetainedOn(r.date) :
                   transactions[n].paid > 0 /\ transactions[n].repaid > 0
            /\ r.principal # PrincipalBefore(newLedgerRows, k)

---------------------------------------------------------------------------
(* C18 *)

\* The period of row k lies entirely before the start date: the row's date
\* and the date of the next event are both before it.
PeriodBeforeStart(rows, k) ==
    /\ ~IsCapitalization(rows[k])
    /\ DateLT(rows[k].date, customer.iclStartDate)
    /\ \E j \in (k + 1)..Len(rows) :
           /\ ~IsCapitalization(rows[j])
           /\ DateLT(rows[j].date, customer.iclStartDate)

\* C18 as stated: interest accrues only from the start date. For every event
\* whose period lies entirely before the start date the gross interest is 0,
\* also when the principal is positive. Stated for valid terms.
C18_NoInterestBeforeStart ==
    (pc = "done" /\ ~InvalidTerms) =>
        \A k \in 1..Len(result) :
            PeriodBeforeStart(result, k) => result[k].interest = RZero

\* C18 as computed: the start date gates the capitalization, not the
\* accrual. An event dated before the start date accrues interest like any
\* other (principal x rate x days / (100 x days in year) on a positive
\* principal, 0 otherwise), and no Capitalization is made on its date.
C18_AccruesBeforeStart ==
    pc = "done" =>
        \A k \in 1..Len(result) :
            (~IsCapitalization(result[k])
                 /\ DateLT(result[k].date, customer.iclStartDate)) =>
                /\ result[k].interest =
                       IF RPos(result[k].principal) THEN AccrualOf(result, k) ELSE RZero
                /\ k < Len(result) => ~IsCapitalization(result[k + 1])

\* A period entirely before the start date with positive gross interest, and
\* a quarter-end before the start date in Compound mode left uncapitalized.
C18_Witness ==
    /\ pc = "done"
    /\ ~InvalidTerms
    /\ customer.interestMethod = "Compound"
    /\ \E k \in 1..Len(result) :
           PeriodBeforeStart(result, k) /\ RPos(result[k].interest)
    /\ \E k \in 1..Len(result) :
           /\ IsCalendarQuarterEnd(result[k].date)
           /\ DateLT(result[k].date, customer.iclStartDate)
           /\ RPos(result[k].cumulativeInterest)

---------------------------------------------------------------------------
(* C19 *)

\* The index of the last event row of a non-empty ledger: the last row, or
\* the one before it when the last row is a Capitalization.
LastEventRow(rows) ==
    IF IsCapitalization(rows[Len(rows)]) THEN Len(rows) - 1 ELSE Len(rows)

\* The gross interest of one day on the principal of row r.
OneDayAccrual(r) ==
    IF RPos(r.principal)
    THEN RMul(r.principal, Rat(customer.interestRate, 100 * getDaysInYear(r.date.y)))
    ELSE RZero

\* C19: closing event. With an end date set and a transaction retained, the
\* end date is the last event date; a row dated the end date accrues a 1-day
\* period; no row is dated after the end date; and if the end date is a
\* quarter-end, in Compound mode, not before the start date, with positive
\* cumulative net interest, a Capitalization row dated the end date is the
\* final row of the ledger.
C19_ClosingEvent ==
    (pc = "done" /\ HasEndDate /\ LedgerProduced) =>
        /\ result # <<>>
        /\ format(uniqueSortedDates[Len(uniqueSortedDates)]) = customer.iclEndDate
        /\ \A k \in 1..Len(result) : DateLE(result[k].date, customer.iclEndDate)
        /\ LET closing == result[LastEventRow(result)]
               final == result[Len(result)]
           IN  /\ ~IsCapitalization(closing)
               /\ closing.date = customer.iclEndDate
               /\ closing.interest = OneDayAccrual(closing)
               /\ (/\ IsCalendarQuarterEnd(customer.iclEndDate)
                   /\ customer.interestMethod = "Compound"
                   /\ DateLE(customer.iclStartDate, customer.iclEndDate)
                   /\ RPos(closing.cumulativeInterest)) =>
                      IsCapitalization(final) /\ final.date = customer.iclEndDate

\* A returned ledger whose end date is a quarter-end: its closing row has
\* accrued one day of interest and a Capitalization of that date is the
\* final row.
C19_Witness ==
    /\ pc = "done"
    /\ HasEndDate
    /\ Len(result) >= 3
    /\ IsCalendarQuarterEnd(customer.iclEndDate)
    /\ IsCapitalization(result[Len(result)])
    /\ result[Len(result)].date = customer.iclEndDate
    /\ RPos(result[Len(result) - 1].interest)

---------------------------------------------------------------------------
(* C20 *)

\* The gross interest of the period of row k on the principal p.
AccrualOn(rows, k, p) ==
    IF RPos(p)
    THEN RMul(p, Rat(customer.interestRate * PeriodDays(rows, k),
                     100 * getDaysInYear(rows[k].date.y)))
    ELSE RZero

\* C20: capitalized interest is interest-bearing. For every Capitalization
\* at a date d, the gross interest of every period that begins on or after d
\* is computed on a principal that includes the capitalized amount: the
\* period [d, next(d)), reported on the event row of d, on the principal of
\* the Capitalization row, and every later period on a principal carried on
\* from it. Stated for valid terms.
C20_CapitalizedBearsInterest ==
    (pc = "done" /\ ~InvalidTerms) =>
        \A c \in 2..Len(result) :
            IsCapitalization(result[c]) =>
                /\ result[c - 1].interest =
                       AccrualOn(result, c - 1, result[c].principal)
                /\ \A j \in (c + 1)..Len(result) :
                       /\ result[j].principal =
                              RAdd(result[j - 1].principal,
                                   RInt(result[j].paid - result[j].repaid))
                       /\ result[j].interest =
                              AccrualOn(result, j, result[j].principal)

---------------------------------------------------------------------------
(* C21 *)

\* The sum of paid - repaid over rows 1..k.
RECURSIVE AmountsUpTo(_, _)
AmountsUpTo(rows, k) ==
    IF k = 0 THEN 0
    ELSE AmountsUpTo(rows, k - 1) + rows[k].paid - rows[k].repaid

\* The sum of the net interest over rows 1..k.
RECURSIVE NetUpTo(_, _)
NetUpTo(rows, k) ==
    IF k = 0 THEN RZero ELSE RAdd(NetUpTo(rows, k - 1), rows[k].netInterest)

\* All that has gone into the account up to row k.
TotalUpTo(rows, k) == RAdd(RInt(AmountsUpTo(rows, k)), NetUpTo(rows, k))

\* C21 as stated: row balance consistency. On every row, Capitalization
\* rows included, principal + cumulativeInterest is the sum of paid - repaid
\* of the transactions applied so far plus the sum of the net interest
\* accrued so far. Stated for valid terms.
C21_RowBalanceEveryRow ==
    ~InvalidTerms =>
        \A k \in 1..Len(newLedgerRows) :
            RAdd(newLedgerRows[k].principal, newLedgerRows[k].cumulativeInterest)
                = TotalUpTo(newLedgerRows, k)

\* C21 as computed: on every event row principal + cumulativeInterest is the
\* sum of paid - repaid so far plus the sum of the net interest so far; on a
\* Capitalization row the cumulativeInterest field repeats the amount just
\* folded in, so that the principal alone is that total.
C21_RowBalanceEventRows ==
    \A k \in 1..Len(newLedgerRows) :
        LET r == newLedgerRows[k]
        IN  IF IsCapitalization(r)
            THEN /\ r.principal = TotalUpTo(newLedgerRows, k)
                 /\ r.cumulativeInterest = newLedgerRows[k - 1].cumulativeInterest
            ELSE RAdd(r.principal, r.cumulativeInterest) = TotalUpTo(newLedgerRows, k)

\* A Capitalization row between two event rows that both earned interest,
\* after a repayment has been applied.
C21_Witness ==
    \E k \in 2..(Len(newLedgerRows) - 1) :
        /\ IsCapitalization(newLedgerRows[k])
        /\ RPos(newLedgerRows[k + 1].cumulativeInterest)
        /\ \E j \in 1..Len(newLedgerRows) : newLedgerRows[j].repaid > 0

---------------------------------------------------------------------------
(* C22 *)

\* The event dates of the returned rows.
RowDates(rows) == {rows[k].date : k \in 1..Len(rows)}

\* C22: a zero rate is a valid term. With a rate of 0, a start date and at
\* least one retained transaction (terms otherwise valid), the ledger is not
\* empty, every retained transaction date has a row, every row's principal is
\* the principal before it plus the net amount of its date's transactions,
\* and every row has zero gross interest, tds and net interest.
C22_ZeroRateLedger ==
    (pc = "done" /\ customer.interestRate = 0 /\ customer.iclStartDate # NoDate
         /\ RetainedDates # {} /\ ~InvalidTerms) =>
        /\ result # <<>>
        /\ RetainedDates \subseteq RowDates(result)
        /\ \A k \in 1..Len(result) :
               /\ result[k].principal =
                      RAdd(PrincipalBefore(result, k),
                           RInt(RetainedPaidOn(transactions, result[k].date)
                                - RetainedRepaidOn(transactions, result[k].date)))
               /\ ~HasInterest(result[k])

---------------------------------------------------------------------------
(* C23 *)

\* C23: no negative interest. With a rate >= 0 every row's gross interest
\* is >= 0, and it is exactly 0 when the running principal is <= 0, in which
\* case the row leaves the cumulative net interest as it was; and
\* calculateSimpleInterest itself returns a value >= 0 that is exactly 0 for
\* a principal <= 0 or a period of 0 days or less.
C23_NoNegativeInterest ==
    customer.interestRate >= 0 =>
        /\ \A k \in 1..Len(newLedgerRows) :
               LET r == newLedgerRows[k]
               IN  /\ RLe(RZero, r.interest)
                   /\ (~IsCapitalization(r) /\ RNonPos(r.principal)) =>
                          /\ r.interest = RZero
                          /\ r.cumulativeInterest = CumulativeBefore(newLedgerRows, k)
        /\ pc = "computed" =>
               /\ RLe(RZero, sampleInterest)
               /\ (RNonPos(sampleAmount) \/ sampleDays <= 0) => sampleInterest = RZero

\* A rate > 0, and an event row whose principal repayments have brought to
\* 0 or below: it follows a row with positive cumulative net interest,
\* leaves it as it was, and has a later event after it.
C23_Witness ==
    /\ customer.interestRate > 0
    /\ \E k \in 2..(Len(newLedgerRows) - 1) :
           /\ ~IsCapitalization(newLedgerRows[k])
           /\ RNonPos(newLedgerRows[k].principal)
           /\ newLedgerRows[k].repaid > 0
           /\ RPos(newLedgerRows[k - 1].cumulativeInterest)
           /\ newLedgerRows[k].cumulativeInterest =
                  newLedgerRows[k - 1].cumulativeInterest

---------------------------------------------------------------------------
(* C24 *)

\* The calendar date of an event of the timeline: the date of the
\* transaction, the quarter's last day of a quarter end.
EventDay(event) ==
    IF event.type = "transaction" THEN event.data.date
    ELSE localDate(event.date, timezoneOffset)

\* The timeline is in non-decreasing date order, a transaction before a
\* quarter end of the same date.
EventsInOrder ==
    \A j, k \in 1..Len(events) :
        j < k =>
            /\ newDate(EventDay(events[j])) <= newDate(EventDay(events[k]))
            /\ ~(/\ EventDay(events[j]) = EventDay(events[k])
                 /\ events[j].type = "quarter_end"
                 /\ events[k].type = "transaction")

\* The rows are in non-decreasing date order.
RowsByDate(rows) ==
    \A k \in 1..(Len(rows) - 1) : newDate(rows[k].date) <= newDate(rows[k + 1].date)

\* On a shared date no Interest row precedes a Deposit or Repayment row.
TransactionRowsFirst(rows) ==
    \A j, k \in 1..Len(rows) :
        (j < k /\ rows[j].date = rows[k].date) =>
            ~(rows[j].type = "Interest" /\ rows[k].type \in {"Deposit", "Repayment"})

\* C24: same-day ordering in calculateLedger. The events are processed in
\* non-decreasing date order with a transaction before a quarter end of the
\* same date, and the returned ledger is non-decreasing by date with, on any
\* shared date, the Deposit or Repayment row before every Interest row.
C24_SameDayOrdering ==
    /\ pc \in {"opening", "events", "returned"} => EventsInOrder
    /\ pc = "returned" => (RowsByDate(result) /\ TransactionRowsFirst(result))

---------------------------------------------------------------------------
(* C25 *)

\* The number of Deposit and Repayment rows among rows 1..k.
RECURSIVE RecordedUpTo(_, _)
RecordedUpTo(rows, k) ==
    IF k = 0 THEN 0
    ELSE RecordedUpTo(rows, k - 1) + (IF rows[k].type = "Interest" THEN 0 ELSE 1)

\* The sum of amountPaid - amountRepaid over the first n transactions.
RECURSIVE NetAmountOfFirst(_, _)
NetAmountOfFirst(txs, n) ==
    IF n = 0 THEN 0
    ELSE NetAmountOfFirst(txs, n - 1) + txs[n].amountPaid - txs[n].amountRepaid

\* The sum of netInterest over the Interest rows among rows 1..k.
RECURSIVE NetInterestUpTo(_, _)
NetInterestUpTo(rows, k) ==
    IF k = 0 THEN RZero
    ELSE RAdd(NetInterestUpTo(rows, k - 1),
              IF rows[k].type = "Interest" THEN rows[k].netInterest ELSE RZero)

\* The balance of row k is what the transactions recorded up to it brought
\* in plus the net interest of the Interest rows up to it.
BalanceConserved(rows, txs, k) ==
    rows[k].balance =
        RAdd(RInt(NetAmountOfFirst(txs, RecordedUpTo(rows, k))),
             NetInterestUpTo(rows, k))

\* C25: balance conservation in calculateLedger. On every row of the
\* returned ledger, for the Simple and the Compound method alike, balance is
\* the sum of amountPaid - amountRepaid of the transactions recorded up to
\* the row plus the sum of netInterest of the Interest rows up to the row.
C25_BalanceConservation ==
    pc = "returned" =>
        \A k \in 1..Len(result) : BalanceConserved(result, sortedTransactions, k)

---------------------------------------------------------------------------
(* C26 *)

\* The stored rows of a ledger are what generateLedger gives for its
\* customer and transactions as they are now.
Fresh(l) == l.calculatedLedger = GenerateLedger(l.customer, l.transactions, clock)

\* C26: displayed ledger freshness in the App. Whenever the customer form is
\* hidden, the calculatedLedger of each ledger is generateLedger of that
\* ledger's current terms and current transactions, after any sequence of
\* handleAddNewLedger, handleCustomerChange, handleSaveCustomer,
\* handleAddTransaction, form toggles and selections of the active ledger.
C26_DisplayedLedgerFresh ==
    ~showCustomerForm => \A k \in 1..Len(ledgers) : Fresh(ledgers[k])

\* The second half of C26: a step that keeps the ledgers and the active one
\* in place (handleCustomerChange, handleSaveCustomer, handleAddTransaction)
\* leaves every ledger other than the active one as it was.
C26_OthersUntouched ==
    [][(Len(ledgers') = Len(ledgers) /\ activeLedgerId' = activeLedgerId) =>
           \A k \in 1..Len(ledgers) :
               ledgers[k].id # activeLedgerId => ledgers'[k] = ledgers[k]]_vars

\* The step-by-step loop of generateLedger and the function the handlers
\* call return the same rows.
GenerateLedgerAgrees ==
    pc = "done" => result = GenerateLedger(customer, transactions, clock)

=============================================================================
